---- MODULE Spec2Model ----
(***************************************************************************)
(* Model of the multi-process workflow engine (benchproc/engine.py) and    *)
(* its sequential command runner (benchproc/task.py).                      *)
(*                                                                         *)
(* A run is one call of MultiProcessWorkflowEngine.execute.  Every run     *)
(* has a position in execute (epc), a directory below the base directory   *)
(* (dirs, fs), possibly an entry in the run table self.tasks (tasks), a    *)
(* worker pool (pool) and a position of the command runner and of the      *)
(* pool's result handler thread (wk).  The engine lock self.lock is the    *)
(* variable lock.                                                          *)
(***************************************************************************)
EXTENDS Naturals, Sequences, FiniteSets, TLC

\* Bounds of the model.
MaxRuns == 2
MaxCmds == 2
MaxSteps == 2
MaxStepCmds == 2

RunIds == 1..MaxRuns

\* Names of files below a run directory, and what a directory entry can be.
Files == {"a", "b", "c"}
NoEntry == "none"

\* The output files the template declares (outputs/files of the workflow
\* specification, after replace_args).
OutputFiles == {"a", "b"}

\* How one shell command can end: exit code 0, exit code # 0, or
\* subprocess.run raising.
Outcomes == {"zero", "nonzero", "raise"}

\* What a command that exits with code 0 leaves in the run directory:
\* nothing, the declared file a, a directory at the declared path b, or the
\* undeclared file c.
NoEffect == [name |-> "none", kind |-> NoEntry]
Effects ==
    {NoEffect, [name |-> "a", kind |-> "file"], [name |-> "b", kind |-> "dir"],
     [name |-> "c", kind |-> "file"]}

VARIABLES
    nextId,     \* number of run identifiers minted so far
    epc,        \* epc[r]: position of the execute call that minted r
    exc,        \* exc[r]: the exception that execute call raised, if any
    mode,       \* mode[r]: "async" or "sync"
    dirs,       \* run directories that exist below base_dir
    fs,         \* fs[r][f]: entry f of run directory r
    tasks,      \* self.tasks: run id -> (state, pool)
    pool,       \* pool[r]: state of the multiprocessing.Pool of run r
    wk,         \* wk[r]: position of tasks.run and of the result handler
    codes,      \* codes[r]: outcomes of the commands executed so far
    lock,       \* self.lock
    ret,        \* what the step just taken returned to the caller of the API
    hist        \* hist[r]: whether r was registered, and how its entry left

vars == <<nextId, epc, exc, mode, dirs, fs, tasks, pool, wk, codes, lock, ret,
          hist>>

----------------------------------------------------------------------------
\* Workflow states (benchtmpl.workflow.state), reduced to what the engine
\* reads and writes.

NoResources == [f \in {} |-> <<>>]

StateRunning == [type |-> "Running", resources |-> NoResources, messages |-> <<>>]

StateSuccess(resources) ==
    [type |-> "Success", resources |-> resources, messages |-> <<>>]

StateError(messages) ==
    [type |-> "Error", resources |-> NoResources, messages |-> messages]

NoState == [type |-> "None", resources |-> NoResources, messages |-> <<>>]

\* Dictionary helpers for self.tasks.
Put(t, k, v) == [x \in (DOMAIN t) \cup {k} |-> IF x = k THEN v ELSE t[x]]

Del(t, k) == [x \in (DOMAIN t) \ {k} |-> t[x]]

FreeLock == [holder |-> "none", id |-> 0]

EmptyDir == [f \in Files |-> NoEntry]

\* What a call of the API returns: res is "ok" or the exception raised, val
\* the state returned by get_state.  A step that returns nothing to a caller
\* leaves NoReturn.
Return(op, id, res, val) == [op |-> op, id |-> id, res |-> res, val |-> val]

NoReturn == Return("none", 0, "none", NoState)

----------------------------------------------------------------------------
Init ==
    /\ nextId = 0
    /\ epc = [r \in RunIds |-> "none"]
    /\ exc = [r \in RunIds |-> "none"]
    /\ mode = [r \in RunIds |-> "none"]
    /\ dirs = {}
    /\ fs = [r \in RunIds |-> EmptyDir]
    /\ tasks = <<>>
    /\ pool = [r \in RunIds |-> "none"]
    /\ wk = [r \in RunIds |-> "none"]
    /\ codes = [r \in RunIds |-> <<>>]
    /\ lock = FreeLock
    /\ ret = NoReturn
    /\ hist = [r \in RunIds |-> "never"]

----------------------------------------------------------------------------
\* Pure helpers of execute, tasks.run and callback_function.

\* Variant: the identifier does not depend on the calls made before.
NewIdentifierReused(n) == 1

\* util.get_unique_identifier(): a fresh identifier at every call; n
\* identifiers have been minted before.
NewIdentifier(n) == n + 1

\* Variant: the except block re-raises without removing the run directory.
RemoveTreeSkipped(d, r) == d

\* shutil.rmtree(run_dir): the directories left below base_dir.
RemoveTree(d, r) == d \ {r}

\* Variant: the return code is not tested, only an exception ends the loop.
StopsOnExceptionOnly(o) == o = "raise"

\* tasks.run leaves the loop over the commands (returns) after a command with
\* this outcome.
Stops(o) == o # "zero"

\* Variant: stderr is not appended to the messages of a failed command.
TaskResultWithoutStderr(cs) ==
    IF cs # <<>> /\ cs[Len(cs)] = "nonzero"
    THEN [status |-> "ERROR", messages |-> <<>>]
    ELSE IF cs # <<>> /\ cs[Len(cs)] = "raise"
    THEN [status |-> "ERROR", messages |-> <<"str(ex)", "traceback">>]
    ELSE [status |-> "SUCCESS", messages |-> <<>>]

\* Variant: the traceback is not appended to the messages of a command that
\* raised.
TaskResultWithoutTraceback(cs) ==
    IF cs # <<>> /\ cs[Len(cs)] = "nonzero"
    THEN [status |-> "ERROR", messages |-> <<"stderr">>]
    ELSE IF cs # <<>> /\ cs[Len(cs)] = "raise"
    THEN [status |-> "ERROR", messages |-> <<"str(ex)">>]
    ELSE [status |-> "SUCCESS", messages |-> <<>>]

\* The value tasks.run returns after the commands with outcomes cs.
TaskResult(cs) ==
    IF cs # <<>> /\ cs[Len(cs)] = "nonzero"
    THEN [status |-> "ERROR", messages |-> <<"stderr">>]
    ELSE IF cs # <<>> /\ cs[Len(cs)] = "raise"
    THEN [status |-> "ERROR", messages |-> <<"str(ex)", "traceback">>]
    ELSE [status |-> "SUCCESS", messages |-> <<>>]

\* The tuple tasks.run returns for the run identifier: the identifier it was
\* called with, the status and the messages.
RunResult(identifier, cs) ==
    [identifier |-> identifier,
     status |-> TaskResult(cs).status,
     messages |-> TaskResult(cs).messages]

\* Variant: os.path.exists instead of os.path.isfile.
IsFileOrDir(d, f) == d[f] # NoEntry

\* os.path.isfile(os.path.join(run_dir, f)).
IsFile(d, f) == d[f] = "file"

\* The resources dictionary callback_function builds for a successful run r:
\* one FileResource per declared output file that is a file in the run
\* directory.
Resources(r, declared, d) ==
    [f \in {x \in declared : IsFile(d, x)} |-> [identifier |-> f, filepath |-> <<r, f>>]]

\* Variant: the callback stores the state it read from the entry, not the
\* result state built from it.
ResultStateKeepsState(r, res, declared, d) == StateRunning

\* The state callback_function stores for the result res of run r.
ResultState(r, res, declared, d) ==
    IF res.status = "SUCCESS"
    THEN StateSuccess(Resources(r, declared, d))
    ELSE StateError(res.messages)

\* The run directory after a command that exits with code 0 and effect e.
Apply(d, e) ==
    IF e.name \in Files /\ d[e.name] = NoEntry
    THEN [d EXCEPT ![e.name] = e.kind]
    ELSE d

\* Variant: cancel_run keeps the entry and stores an error state in it.
CancelEntryAsError(t, id) == Put(t, id, <<StateError(<<"canceled">>), FALSE>>)

\* Variant: cancel_run terminates the pool and forgets to delete the entry.
CancelEntryKept(t, id) == t

\* Variant: cancel_run deletes the entry of a run that is Running only.
CancelEntryIfRunning(t, id) ==
    IF id \in DOMAIN t /\ t[id][1].type = "Running" THEN Del(t, id) ELSE t

\* cancel_run's "del self.tasks[run_id]".
CancelEntry(t, id) == Del(t, id)

\* Variant: self.tasks.get(run_id) instead of self.tasks[run_id]: no
\* KeyError, and so no UnknownRunError, for an id that is not in the table.
GetStateResultOrNone(t, id) ==
    [res |-> "ok", val |-> IF id \in DOMAIN t THEN t[id][1] ELSE NoState]

\* What get_state returns or raises for id.
GetStateResult(t, id) ==
    IF id \in DOMAIN t
    THEN [res |-> "ok", val |-> t[id][1]]
    ELSE [res |-> "UnknownRunError", val |-> NoState]

IsRunning(t, id) == id \in DOMAIN t /\ t[id][1].type = "Running"

\* The history of the entries: "never" registered, "in" the run table since
\* its registration, or how a call found the entry and returned:
\* "cancel_active" (cancel_run on a Running entry), "cancel_inactive"
\* (cancel_run on a Success or Error entry), "remove" (remove_run).
Leave(h, t, id, how) ==
    IF id \in DOMAIN t /\ h[id] = "in" THEN [h EXCEPT ![id] = how] ELSE h

HowCancelled(t, id) == IF IsRunning(t, id) THEN "cancel_active" ELSE "cancel_inactive"

----------------------------------------------------------------------------
\* execute

\* Variant: the arguments are validated after the identifier is minted and
\* the run directory created.
ExecuteMissingArgumentLate ==
    /\ nextId < MaxRuns
    /\ epc[NewIdentifier(nextId)] = "none"
    /\ nextId' = nextId + 1
    /\ dirs' = dirs \cup {NewIdentifier(nextId)}
    /\ ret' = Return("execute", 0, "MissingArgumentError", NoState)
    /\ UNCHANGED <<epc, exc, mode, fs, tasks, pool, wk, codes, lock, hist>>

\* template.validate_arguments(arguments) raises MissingArgumentError.
ExecuteMissingArgument ==
    /\ ret' = Return("execute", 0, "MissingArgumentError", NoState)
    /\ UNCHANGED <<nextId, epc, exc, mode, dirs, fs, tasks, pool, wk, codes, lock, hist>>

\* Arguments are valid: mint the identifier and create the run directory.
\* os.makedirs raises FileExistsError, outside of the try block, when the
\* directory exists.
ExecuteStart(m) ==
    /\ nextId < MaxRuns
    /\ LET r == NewIdentifier(nextId) IN
        /\ nextId' = nextId + 1
        /\ IF r \in dirs \/ epc[r] # "none"
           THEN /\ ret' = Return("execute", r, "FileExistsError", NoState)
                /\ UNCHANGED <<epc, mode, dirs>>
           ELSE /\ dirs' = dirs \cup {r}
                /\ epc' = [epc EXCEPT ![r] = "setup"]
                /\ mode' = [mode EXCEPT ![r] = m]
                /\ ret' = NoReturn
    /\ UNCHANGED <<exc, fs, tasks, pool, wk, codes, lock, hist>>

\* upload_files raises IOError, or get_commands / replace_args raises
\* InvalidTemplateError: the except block removes the run directory and
\* re-raises.
ExecuteSetupFail(r, e) ==
    /\ epc[r] = "setup"
    /\ dirs' = RemoveTree(dirs, r)
    /\ fs' = [fs EXCEPT ![r] = EmptyDir]
    /\ epc' = [epc EXCEPT ![r] = "raised"]
    /\ exc' = [exc EXCEPT ![r] = e]
    /\ ret' = Return("execute", r, e, NoState)
    /\ UNCHANGED <<nextId, mode, tasks, pool, wk, codes, lock, hist>>

\* Files are staged, the commands and the output files are resolved.
ExecuteSetupOk(r) ==
    /\ epc[r] = "setup"
    /\ epc' = [epc EXCEPT ![r] = "ready"]
    /\ ret' = NoReturn
    /\ UNCHANGED <<nextId, exc, mode, dirs, fs, tasks, pool, wk, codes, lock, hist>>

\* Variant: the pool is created but the entry is not inserted into the run
\* table before the task is dispatched.
RegisterNotInserted(r) ==
    /\ epc[r] = "ready"
    /\ lock = FreeLock
    /\ pool' = [pool EXCEPT ![r] = IF mode[r] = "async" THEN "run" ELSE "none"]
    /\ wk' = [wk EXCEPT ![r] = IF mode[r] = "sync" THEN "exec" ELSE "none"]
    /\ epc' = [epc EXCEPT ![r] = "registered"]
    /\ ret' = NoReturn
    /\ UNCHANGED <<nextId, exc, mode, dirs, fs, tasks, codes, lock, hist>>

\* "with self.lock: self.tasks[identifier] = (state, pool)": run_async with a
\* new Pool(processes=1), the synchronous branch of execute with None.  The
\* synchronous branch goes on to tasks.run in the caller's thread.
Register(r) ==
    /\ epc[r] = "ready"
    /\ lock = FreeLock
    /\ tasks' = Put(tasks, r, <<StateRunning, mode[r] = "async">>)
    /\ pool' = [pool EXCEPT ![r] = IF mode[r] = "async" THEN "run" ELSE "none"]
    /\ wk' = [wk EXCEPT ![r] = IF mode[r] = "sync" THEN "exec" ELSE "none"]
    /\ epc' = [epc EXCEPT ![r] = "registered"]
    /\ hist' = [hist EXCEPT ![r] = "in"]
    /\ ret' = NoReturn
    /\ UNCHANGED <<nextId, exc, mode, dirs, fs, codes, lock>>

\* pool.apply_async(tasks.run, ..., callback=...) and the return of execute.
\* apply_async raises ValueError when the pool is not running any more; the
\* except block of execute removes the run directory and re-raises.
Dispatch(r) ==
    /\ epc[r] = "registered"
    /\ mode[r] = "async"
    /\ IF pool[r] = "run"
       THEN /\ wk' = [wk EXCEPT ![r] = "exec"]
            /\ epc' = [epc EXCEPT ![r] = "returned"]
            /\ ret' = Return("execute", r, "ok", NoState)
            /\ UNCHANGED <<exc, dirs, fs>>
       ELSE /\ dirs' = RemoveTree(dirs, r)
            /\ fs' = [fs EXCEPT ![r] = EmptyDir]
            /\ epc' = [epc EXCEPT ![r] = "raised"]
            /\ exc' = [exc EXCEPT ![r] = "ValueError"]
            /\ ret' = Return("execute", r, "ValueError", NoState)
            /\ UNCHANGED wk
    /\ UNCHANGED <<nextId, mode, tasks, pool, codes, lock, hist>>

----------------------------------------------------------------------------
\* tasks.run.  The command list of a run is any list of at most MaxCmds
\* commands; whether it holds one more command is decided when the loop asks
\* for the next one.

\* One iteration of the loop: subprocess.run of the next command, with
\* outcome o and, for exit code 0, effect e on the run directory.
RunCommand(r, o, e) ==
    /\ wk[r] = "exec"
    /\ Len(codes[r]) < MaxCmds
    /\ o # "zero" => e = NoEffect
    /\ codes' = [codes EXCEPT ![r] = Append(@, o)]
    /\ fs' = [fs EXCEPT ![r] = IF r \in dirs /\ o = "zero" THEN Apply(@, e) ELSE @]
    /\ wk' = [wk EXCEPT ![r] = IF Stops(o) THEN "result" ELSE "exec"]
    /\ ret' = NoReturn
    /\ UNCHANGED <<nextId, epc, exc, mode, dirs, tasks, pool, lock, hist>>

\* The list is exhausted: return identifier, STATE_SUCCESS, list().
RunReturn(r) ==
    /\ wk[r] = "exec"
    /\ wk' = [wk EXCEPT ![r] = "result"]
    /\ ret' = NoReturn
    /\ UNCHANGED <<nextId, epc, exc, mode, dirs, fs, tasks, pool, codes, lock, hist>>

----------------------------------------------------------------------------
\* Completion

\* The pool's result handler thread takes the result of the worker and calls
\* the callback, which starts by acquiring the lock.
HandlerTake(r) ==
    /\ mode[r] = "async"
    /\ wk[r] = "result"
    /\ wk' = [wk EXCEPT ![r] = "incb"]
    /\ ret' = NoReturn
    /\ UNCHANGED <<nextId, epc, exc, mode, dirs, fs, tasks, pool, codes, lock, hist>>

\* Variant: a result with status ERROR is raised as an exception; in
\* synchronous mode it reaches the except block of execute, which removes the
\* run directory and re-raises.
CallbackRaisesOnError(r) ==
    /\ \/ mode[r] = "async" /\ wk[r] = "incb"
       \/ mode[r] = "sync" /\ wk[r] = "result"
    /\ lock = FreeLock
    /\ IF TaskResult(codes[r]).status = "ERROR"
       THEN /\ dirs' = IF mode[r] = "sync" THEN RemoveTree(dirs, r) ELSE dirs
            /\ exc' = [exc EXCEPT ![r] = IF mode[r] = "sync" THEN "ExecutionError" ELSE @]
            /\ epc' = [epc EXCEPT ![r] = IF mode[r] = "sync" THEN "raised" ELSE @]
            /\ ret' = IF mode[r] = "sync"
                      THEN Return("execute", r, "ExecutionError", NoState)
                      ELSE NoReturn
            /\ UNCHANGED <<tasks, pool>>
       ELSE /\ IF r \in DOMAIN tasks
               THEN /\ tasks' = Put(tasks, r,
                            <<ResultState(r, TaskResult(codes[r]), OutputFiles, fs[r]), FALSE>>)
                    /\ pool' = [pool EXCEPT ![r] = IF tasks[r][2] THEN "close" ELSE @]
               ELSE UNCHANGED <<tasks, pool>>
            /\ epc' = [epc EXCEPT ![r] = IF mode[r] = "sync" THEN "returned" ELSE @]
            /\ ret' = IF mode[r] = "sync" THEN Return("execute", r, "ok", NoState) ELSE NoReturn
            /\ UNCHANGED <<exc, dirs>>
    /\ wk' = [wk EXCEPT ![r] = "done"]
    /\ UNCHANGED <<nextId, mode, fs, codes, lock, hist>>

\* Variant: callback_function writes the run table without taking the lock.
CallbackUnlocked(r) ==
    /\ \/ mode[r] = "async" /\ wk[r] = "incb"
       \/ mode[r] = "sync" /\ wk[r] = "result"
    /\ IF r \in DOMAIN tasks
       THEN /\ tasks' = Put(tasks, r,
                    <<ResultState(r, TaskResult(codes[r]), OutputFiles, fs[r]), FALSE>>)
            /\ pool' = [pool EXCEPT ![r] = IF tasks[r][2] THEN "close" ELSE @]
       ELSE UNCHANGED <<tasks, pool>>
    /\ wk' = [wk EXCEPT ![r] = "done"]
    /\ epc' = [epc EXCEPT ![r] = IF mode[r] = "sync" THEN "returned" ELSE @]
    /\ ret' = IF mode[r] = "sync" THEN Return("execute", r, "ok", NoState) ELSE NoReturn
    /\ UNCHANGED <<nextId, exc, mode, dirs, fs, codes, lock, hist>>

\* Variant: callback_function stores the result state without testing
\* whether the id is still in the run table.
CallbackNoMembershipTest(r) ==
    /\ \/ mode[r] = "async" /\ wk[r] = "incb"
       \/ mode[r] = "sync" /\ wk[r] = "result"
    /\ lock = FreeLock
    /\ tasks' = Put(tasks, r,
            <<ResultState(r, TaskResult(codes[r]), OutputFiles, fs[r]), FALSE>>)
    /\ pool' = [pool EXCEPT ![r] = IF r \in DOMAIN tasks /\ tasks[r][2] THEN "close" ELSE @]
    /\ wk' = [wk EXCEPT ![r] = "done"]
    /\ epc' = [epc EXCEPT ![r] = IF mode[r] = "sync" THEN "returned" ELSE @]
    /\ ret' = IF mode[r] = "sync" THEN Return("execute", r, "ok", NoState) ELSE NoReturn
    /\ UNCHANGED <<nextId, exc, mode, dirs, fs, codes, lock, hist>>

\* Variant: callback_function removes the task from the task index, as its
\* docstring says, instead of storing the result state.
CallbackRemovesEntry(r) ==
    /\ \/ mode[r] = "async" /\ wk[r] = "incb"
       \/ mode[r] = "sync" /\ wk[r] = "result"
    /\ lock = FreeLock
    /\ IF r \in DOMAIN tasks
       THEN /\ tasks' = Del(tasks, r)
            /\ pool' = [pool EXCEPT ![r] = IF tasks[r][2] THEN "close" ELSE @]
       ELSE UNCHANGED <<tasks, pool>>
    /\ wk' = [wk EXCEPT ![r] = "done"]
    /\ epc' = [epc EXCEPT ![r] = IF mode[r] = "sync" THEN "returned" ELSE @]
    /\ ret' = IF mode[r] = "sync" THEN Return("execute", r, "ok", NoState) ELSE NoReturn
    /\ UNCHANGED <<nextId, exc, mode, dirs, fs, codes, lock, hist>>

\* Variant: callback_function closes the pool but stores it again with the
\* result state.
CallbackKeepsPool(r) ==
    /\ \/ mode[r] = "async" /\ wk[r] = "incb"
       \/ mode[r] = "sync" /\ wk[r] = "result"
    /\ lock = FreeLock
    /\ IF r \in DOMAIN tasks
       THEN /\ tasks' = Put(tasks, r,
                    <<ResultState(r, TaskResult(codes[r]), OutputFiles, fs[r]), tasks[r][2]>>)
            /\ pool' = [pool EXCEPT ![r] = IF tasks[r][2] THEN "close" ELSE @]
       ELSE UNCHANGED <<tasks, pool>>
    /\ wk' = [wk EXCEPT ![r] = "done"]
    /\ epc' = [epc EXCEPT ![r] = IF mode[r] = "sync" THEN "returned" ELSE @]
    /\ ret' = IF mode[r] = "sync" THEN Return("execute", r, "ok", NoState) ELSE NoReturn
    /\ UNCHANGED <<nextId, exc, mode, dirs, fs, codes, lock, hist>>

\* callback_function, from "with lock" to the end; in synchronous mode
\* execute returns after it.
Callback(r) ==
    /\ \/ mode[r] = "async" /\ wk[r] = "incb"
       \/ mode[r] = "sync" /\ wk[r] = "result"
    /\ lock = FreeLock
    /\ IF r \in DOMAIN tasks
       THEN /\ tasks' = Put(tasks, r,
                    <<ResultState(r, TaskResult(codes[r]), OutputFiles, fs[r]), FALSE>>)
            /\ pool' = [pool EXCEPT ![r] = IF tasks[r][2] THEN "close" ELSE @]
       ELSE UNCHANGED <<tasks, pool>>
    /\ wk' = [wk EXCEPT ![r] = "done"]
    /\ epc' = [epc EXCEPT ![r] = IF mode[r] = "sync" THEN "returned" ELSE @]
    /\ ret' = IF mode[r] = "sync" THEN Return("execute", r, "ok", NoState) ELSE NoReturn
    /\ UNCHANGED <<nextId, exc, mode, dirs, fs, codes, lock, hist>>

----------------------------------------------------------------------------
\* get_state, cancel_run, remove_run

GetState(id) ==
    /\ lock = FreeLock
    /\ LET g == GetStateResult(tasks, id) IN
        ret' = Return("get_state", id, g.res, g.val)
    /\ UNCHANGED <<nextId, epc, exc, mode, dirs, fs, tasks, pool, wk, codes, lock, hist>>

\* Variant: cancel_run raises UnknownRunError for an id that has no entry.
CancelAcquireRaisesOnAbsent(id) ==
    /\ lock = FreeLock
    /\ IF id \notin DOMAIN tasks
       THEN /\ ret' = Return("cancel_run", id, "UnknownRunError", NoState)
            /\ UNCHANGED <<tasks, pool, lock, hist>>
       ELSE IF ~tasks[id][2]
       THEN /\ tasks' = CancelEntry(tasks, id)
            /\ hist' = Leave(hist, tasks, id, HowCancelled(tasks, id))
            /\ ret' = Return("cancel_run", id, "ok", NoState)
            /\ UNCHANGED <<pool, lock>>
       ELSE /\ lock' = [holder |-> "cancel_run", id |-> id]
            /\ pool' = [pool EXCEPT ![id] = "close"]
            /\ ret' = NoReturn
            /\ UNCHANGED <<tasks, hist>>
    /\ UNCHANGED <<nextId, epc, exc, mode, dirs, fs, wk, codes>>

\* cancel_run up to pool.close(): with no entry it returns, with an entry
\* that holds no pool it deletes the entry and returns, with a pool it closes
\* the pool, which accepts no task from then on, and goes on to terminate it,
\* holding the lock.
CancelAcquire(id) ==
    /\ lock = FreeLock
    /\ IF id \notin DOMAIN tasks
       THEN /\ ret' = Return("cancel_run", id, "ok", NoState)
            /\ UNCHANGED <<tasks, pool, lock, hist>>
       ELSE IF ~tasks[id][2]
       THEN /\ tasks' = CancelEntry(tasks, id)
            /\ hist' = Leave(hist, tasks, id, HowCancelled(tasks, id))
            /\ ret' = Return("cancel_run", id, "ok", NoState)
            /\ UNCHANGED <<pool, lock>>
       ELSE /\ lock' = [holder |-> "cancel_run", id |-> id]
            /\ pool' = [pool EXCEPT ![id] = "close"]
            /\ ret' = NoReturn
            /\ UNCHANGED <<tasks, hist>>
    /\ UNCHANGED <<nextId, epc, exc, mode, dirs, fs, wk, codes>>

\* Variant: the runs share one pool, so that terminating the pool of id
\* terminates the worker of every run.
CancelTerminateSharedPool(id) ==
    /\ lock = [holder |-> "cancel_run", id |-> id]
    /\ wk[id] # "incb"
    /\ pool' = [r \in RunIds |->
                IF r = id \/ pool[r] = "run" THEN "terminate" ELSE pool[r]]
    /\ wk' = [r \in RunIds |->
                IF (r = id \/ pool[r] = "run") /\ wk[r] \in {"exec", "result"}
                THEN "killed"
                ELSE wk[r]]
    /\ tasks' = CancelEntry(tasks, id)
    /\ hist' = Leave(hist, tasks, id, HowCancelled(tasks, id))
    /\ lock' = FreeLock
    /\ ret' = Return("cancel_run", id, "ok", NoState)
    /\ UNCHANGED <<nextId, epc, exc, mode, dirs, fs, codes>>

\* pool.terminate(); del self.tasks[run_id]; release the lock.
\* terminate kills the worker and joins the pool's result handler thread,
\* which discards a result it has not taken yet; the thread cannot be joined
\* while it is inside the callback.
CancelTerminate(id) ==
    /\ lock = [holder |-> "cancel_run", id |-> id]
    /\ wk[id] # "incb"
    /\ pool' = [pool EXCEPT ![id] = "terminate"]
    /\ wk' = [wk EXCEPT ![id] = IF @ \in {"exec", "result"} THEN "killed" ELSE @]
    /\ tasks' = CancelEntry(tasks, id)
    /\ hist' = Leave(hist, tasks, id, HowCancelled(tasks, id))
    /\ lock' = FreeLock
    /\ ret' = Return("cancel_run", id, "ok", NoState)
    /\ UNCHANGED <<nextId, epc, exc, mode, dirs, fs, codes>>

\* Variant: remove_run deletes the entry whatever its state.
RemoveRunUnchecked(id) ==
    /\ lock = FreeLock
    /\ tasks' = Del(tasks, id)
    /\ hist' = Leave(hist, tasks, id, "remove")
    /\ ret' = Return("remove_run", id, "ok", NoState)
    /\ UNCHANGED <<nextId, epc, exc, mode, dirs, fs, pool, wk, codes, lock>>

\* remove_run: RunActiveError for a run that is Running, otherwise the entry
\* is deleted if there is one.
RemoveRun(id) ==
    /\ lock = FreeLock
    /\ IF IsRunning(tasks, id)
       THEN /\ ret' = Return("remove_run", id, "RunActiveError", NoState)
            /\ UNCHANGED <<tasks, hist>>
       ELSE /\ tasks' = Del(tasks, id)
            /\ hist' = Leave(hist, tasks, id, "remove")
            /\ ret' = Return("remove_run", id, "ok", NoState)
    /\ UNCHANGED <<nextId, epc, exc, mode, dirs, fs, pool, wk, codes, lock>>

----------------------------------------------------------------------------
Modes == {"async", "sync"}

SetupErrors == {"IOError", "InvalidTemplateError"}

Next ==
    \/ ExecuteMissingArgument
    \/ \E m \in Modes : ExecuteStart(m)
    \/ \E r \in RunIds, e \in SetupErrors : ExecuteSetupFail(r, e)
    \/ \E r \in RunIds : ExecuteSetupOk(r)
    \/ \E r \in RunIds : Register(r)
    \/ \E r \in RunIds : Dispatch(r)
    \/ \E r \in RunIds, o \in Outcomes, e \in Effects : RunCommand(r, o, e)
    \/ \E r \in RunIds : RunReturn(r)
    \/ \E r \in RunIds : HandlerTake(r)
    \/ \E r \in RunIds : Callback(r)
    \/ \E id \in RunIds : GetState(id)
    \/ \E id \in RunIds : CancelAcquire(id)
    \/ \E id \in RunIds : CancelTerminate(id)
    \/ \E id \in RunIds : RemoveRun(id)

Spec == Init /\ [][Next]_vars

\* Scheduling: a thread or process that can take its next step takes it.
\* execute goes on to dispatch, the worker process ends its command loop, the
\* result handler thread takes a result and, when the lock is free again and
\* again, acquires it for the callback, and cancel_run goes on when
\* pool.terminate can return.  Callers need not call anything.
Fairness ==
    \A r \in RunIds :
        /\ WF_vars(Dispatch(r))
        /\ WF_vars(RunReturn(r))
        /\ WF_vars(HandlerTake(r))
        /\ SF_vars(Callback(r))
        /\ WF_vars(CancelTerminate(r))

SpecFair == Spec /\ Fairness

----------------------------------------------------------------------------
\* run_async called directly.  It is a public method that other modules call
\* with an identifier of their own choosing; here a caller passes the
\* identifier of a run whose execute call and whose earlier task, if any,
\* are over.  The insertion under the lock and pool.apply_async are taken as
\* one step.
RunAsync(id) ==
    /\ epc[id] \in {"returned", "raised"}
    /\ wk[id] \in {"none", "done", "killed"}
    /\ lock = FreeLock
    /\ tasks' = Put(tasks, id, <<StateRunning, TRUE>>)
    /\ pool' = [pool EXCEPT ![id] = "run"]
    /\ wk' = [wk EXCEPT ![id] = "exec"]
    /\ codes' = [codes EXCEPT ![id] = <<>>]
    /\ mode' = [mode EXCEPT ![id] = "async"]
    /\ hist' = [hist EXCEPT ![id] = "in"]
    /\ ret' = Return("run_async", id, "ok", StateRunning)
    /\ UNCHANGED <<nextId, epc, exc, dirs, fs, lock>>

NextPublic ==
    \/ Next
    \/ \E id \in RunIds : RunAsync(id)

\* The engine with callers of execute, get_state, cancel_run and remove_run
\* and callers of run_async.
SpecPublic == Init /\ [][NextPublic]_vars

----------------------------------------------------------------------------
\* get_commands.  A command string of the template is a sequence of pieces:
\* text, or a placeholder $key of string.Template.  inputs/parameters of the
\* workflow specification maps keys to references to template parameters;
\* a template parameter has a default value and may have an argument.

Text(t) == [kind |-> "text", s |-> t]

Var(k) == [kind |-> "var", s |-> k]

Keys == {"x", "y"}

\* The template parameter that the value of a key refers to.
ParameterOf == [k \in Keys |-> IF k = "x" THEN "p" ELSE "q"]

\* template.parameters: the default value of every template parameter.
Defaults == [n \in {"p", "q"} |-> IF n = "p" THEN "d1" ELSE "d2"]

\* The value an argument supplies for a template parameter.
ArgumentValue == [n \in {"p", "q"} |-> IF n = "p" THEN "v1" ELSE "v2"]

CommandStrings ==
    {<<Text("echo")>>, <<Text("run"), Var("x")>>, <<Var("y"), Var("x")>>}

SeqsUpTo(S, n) == UNION {[1..k -> S] : k \in 0..n}

\* The templates: steps with their commands, and inputs/parameters with the
\* keys it defines.
Templates ==
    [steps : SeqsUpTo(SeqsUpTo(CommandStrings, MaxStepCmds), MaxSteps),
     inputs : {[k \in K |-> ParameterOf[k]] : K \in SUBSET Keys},
     parameters : {Defaults}]

\* The argument dictionaries: a value for some of the template parameters.
Arguments == {[n \in P |-> ArgumentValue[n]] : P \in SUBSET {"p", "q"}}

\* tmpl.replace_args on inputs/parameters: every reference to a template
\* parameter is replaced by the argument for it, or else by its default.
ReplaceArgs(spec, arguments, parameters) ==
    [k \in DOMAIN spec |->
        IF spec[k] \in DOMAIN arguments THEN arguments[spec[k]] ELSE parameters[spec[k]]]

\* Variant: Template.safe_substitute, which leaves a placeholder without a
\* value in place and raises nothing.
SubstituteSafe(command, wp) ==
    [raised |-> "none",
     val |-> [i \in 1..Len(command) |->
                IF command[i].kind = "var" /\ command[i].s \in DOMAIN wp
                THEN wp[command[i].s]
                ELSE command[i].s]]

\* Template(command).substitute(workflow_parameters): the resolved command,
\* or KeyError for a placeholder whose key has no value.
Substitute(command, wp) ==
    IF \E i \in 1..Len(command) : command[i].kind = "var" /\ command[i].s \notin DOMAIN wp
    THEN [raised |-> "KeyError", val |-> <<>>]
    ELSE [raised |-> "none",
          val |-> [i \in 1..Len(command) |->
                    IF command[i].kind = "var" THEN wp[command[i].s] ELSE command[i].s]]

\* The inner loop of get_commands over the commands of one step, appending
\* to result; a KeyError ends it with InvalidTemplateError.
RECURSIVE StepCommands(_, _, _)
StepCommands(commands, wp, result) ==
    IF commands = <<>>
    THEN [raised |-> "none", val |-> result]
    ELSE IF Substitute(Head(commands), wp).raised = "KeyError"
    THEN [raised |-> "InvalidTemplateError", val |-> <<>>]
    ELSE StepCommands(Tail(commands), wp,
                      Append(result, Substitute(Head(commands), wp).val))

\* The outer loop of get_commands over the steps.
RECURSIVE AllSteps(_, _, _)
AllSteps(steps, wp, result) ==
    IF steps = <<>>
    THEN [raised |-> "none", val |-> result]
    ELSE IF StepCommands(Head(steps), wp, result).raised # "none"
    THEN StepCommands(Head(steps), wp, result)
    ELSE AllSteps(Tail(steps), wp, StepCommands(Head(steps), wp, result).val)

\* get_commands(template, arguments): the list of resolved commands, or
\* InvalidTemplateError.
GetCommands(template, arguments) ==
    LET wp == ReplaceArgs(template.inputs, arguments, template.parameters)
        out == AllSteps(template.steps, wp, <<>>)
    IN  IF out.raised # "none"
        THEN [res |-> out.raised, val |-> NoState]
        ELSE [res |-> "ok", val |-> out.val]

\* A call of get_commands; the call record holds the template and the
\* arguments of the call.  The function reads and writes no state of the
\* engine, so a behaviour makes one call.
GetCommandsCall(template, arguments) ==
    /\ ret.op = "none"
    /\ LET g == GetCommands(template, arguments) IN
        ret' = Return("get_commands", [template |-> template, arguments |-> arguments],
                      g.res, g.val)
    /\ UNCHANGED <<nextId, epc, exc, mode, dirs, fs, tasks, pool, wk, codes, lock, hist>>

NextCommands == \E t \in Templates, a \in Arguments : GetCommandsCall(t, a)

\* Callers of get_commands alone.
SpecCommands == Init /\ [][NextCommands]_vars

----------------------------------------------------------------------------
\* Properties

Terminal == {"Success", "Error"}

StateOf(t, id) == t[id][1]

\* The commands of r executed so far all exited with code 0 / one did not.
AllZero(r) == \A i \in 1..Len(codes[r]) : codes[r][i] = "zero"

\* The run directory entries of r that are declared outputs and files.
DeclaredFiles(r) == {f \in OutputFiles : fs[r][f] = "file"}

\* r never got as far as the registration in execute.
NeverRegistered(r) ==
    \/ epc[r] \in {"none", "setup", "ready"}
    \/ exc[r] \in SetupErrors

\* C1: while an entry is in the run table its state changes only from
\* Running to Success or to Error; a Success or Error state is never
\* replaced, so the state of a run changes at most once.
C1_StateChangesOnceFromRunning ==
    [][\A r \in RunIds :
        (r \in DOMAIN tasks /\ r \in DOMAIN tasks' /\ StateOf(tasks', r) # StateOf(tasks, r))
            => /\ StateOf(tasks, r).type = "Running"
               /\ StateOf(tasks', r).type \in Terminal]_vars

C1_Witness ==
    \E r \in DOMAIN tasks : StateOf(tasks, r).type = "Error" /\ wk[r] = "done"

\* C2: once cancel_run has returned for an asynchronous run that was Running,
\* the run is not in the run table, whatever happens afterwards: get_state
\* raises UnknownRunError for it.
C2_CancelledRunIsUnknown ==
    \A r \in RunIds :
        (hist[r] = "cancel_active" /\ mode[r] = "async")
            => /\ r \notin DOMAIN tasks
               /\ GetStateResult(tasks, r).res = "UnknownRunError"
               /\ (ret.op = "get_state" /\ ret.id = r) => ret.res = "UnknownRunError"

C2_Witness ==
    \E r \in RunIds :
        /\ hist[r] = "cancel_active"
        /\ mode[r] = "async"
        /\ wk[r] = "killed"
        /\ ret = Return("get_state", r, "UnknownRunError", NoState)

\* C3: remove_run on a run that is Running raises RunActiveError and changes
\* neither the run table nor the pool and the worker of the run.
C3_RemoveActiveRaises ==
    [][\A id \in RunIds :
        (ret'.op = "remove_run" /\ ret'.id = id /\ IsRunning(tasks, id))
            => /\ ret'.res = "RunActiveError"
               /\ tasks' = tasks
               /\ pool' = pool
               /\ wk' = wk]_vars

C3_Witness ==
    /\ ret.op = "remove_run"
    /\ ret.res = "RunActiveError"
    /\ IsRunning(tasks, ret.id)
    /\ tasks[ret.id][2]

\* C4: remove_run on a run in Success or Error, on a cancelled run and on an
\* id that is not in the run table raises nothing and leaves the run table
\* without the id and otherwise as it was; where the id was not in the
\* table (as after a first remove_run) the table is unchanged.
C4_RemoveInactiveIdempotent ==
    [][\A id \in RunIds :
        (/\ ret'.op = "remove_run"
         /\ ret'.id = id
         /\ \/ id \notin DOMAIN tasks
            \/ hist[id] \in {"cancel_active", "cancel_inactive", "remove"}
            \/ StateOf(tasks, id).type \in Terminal)
            => /\ ret'.res = "ok"
               /\ tasks' = Del(tasks, id)
               /\ id \notin DOMAIN tasks => tasks' = tasks]_vars

C4_Witness ==
    /\ ret = Return("remove_run", ret.id, "ok", NoState)
    /\ ret.id \in RunIds
    /\ hist[ret.id] = "cancel_active"
    /\ \E r \in DOMAIN tasks : hist[r] = "in"

\* C5: once the completion callback of a registered run whose commands all
\* exited with code 0 has run, the run is in Success and the keys of its
\* resources are exactly the declared output files that are files in the run
\* directory.
C5_SuccessResources ==
    \A r \in RunIds :
        (r \in DOMAIN tasks /\ wk[r] = "done" /\ AllZero(r))
            => /\ StateOf(tasks, r).type = "Success"
               /\ DOMAIN StateOf(tasks, r).resources = DeclaredFiles(r)

C5_Witness ==
    \E r \in DOMAIN tasks :
        /\ StateOf(tasks, r).type = "Success"
        /\ DOMAIN StateOf(tasks, r).resources = {"a"}
        /\ fs[r]["b"] = "dir"

\* C6: once the completion callback of a registered run in which a command
\* exited non-zero or raised has run, the run is in Error with at least one
\* message.
C6_FailureEndsInError ==
    \A r \in RunIds :
        (r \in DOMAIN tasks /\ wk[r] = "done" /\ ~AllZero(r))
            => /\ StateOf(tasks, r).type = "Error"
               /\ Len(StateOf(tasks, r).messages) >= 1

C6_Witness ==
    \E r \in DOMAIN tasks :
        /\ codes[r] = <<"zero", "nonzero">>
        /\ StateOf(tasks, r).type = "Error"
        /\ \E q \in DOMAIN tasks : codes[q] = <<"raise">> /\ StateOf(tasks, q).type = "Error"

\* C7: every command of a run but the last one executed exited with code 0,
\* and no command is executed once the runner has returned: a command is
\* only started after all earlier ones exited with code 0.
C7_FailFast ==
    \A r \in RunIds :
        /\ \A i \in 1..(Len(codes[r]) - 1) : codes[r][i] = "zero"
        /\ ~AllZero(r) => wk[r] \in {"result", "incb", "done", "killed"}

C7_Witness ==
    \E r \in RunIds :
        /\ codes[r] = <<"nonzero">>
        /\ wk[r] = "done"
        /\ Len(codes[r]) < MaxCmds

\* C8: get_state raises UnknownRunError for an id that was never registered
\* and for an id whose entry was removed by cancel_run or remove_run, returns
\* the current state of an id that is in the run table, and never changes
\* the run table.
C8_GetState ==
    [][\A id \in RunIds :
        (ret'.op = "get_state" /\ ret'.id = id)
            => /\ tasks' = tasks
               /\ (NeverRegistered(id) \/ hist[id] \notin {"never", "in"})
                    => ret'.res = "UnknownRunError"
               /\ id \in DOMAIN tasks
                    => ret'.res = "ok" /\ ret'.val = StateOf(tasks, id)]_vars

C8_Witness ==
    /\ ret.op = "get_state"
    /\ ret.res = "UnknownRunError"
    /\ hist[ret.id] = "remove"
    /\ \E r \in RunIds : NeverRegistered(r) /\ r # ret.id

\* C9: when execute raises IOError or InvalidTemplateError during setup, the
\* run directory of the call is gone and the run was never registered.
C9_SetupFailureCleansUp ==
    /\ \A r \in RunIds :
        exc[r] \in SetupErrors
            => /\ epc[r] = "raised"
               /\ r \notin dirs
               /\ r \notin DOMAIN tasks
               /\ hist[r] = "never"
    /\ (ret.op = "execute" /\ ret.res \in SetupErrors) => exc[ret.id] = ret.res

C9_Witness ==
    /\ ret.op = "execute"
    /\ ret.res = "IOError"
    /\ dirs # {}

\* C10: a call of execute that raises MissingArgumentError mints no
\* identifier, creates no directory and changes no run table entry.
C10_MissingArgumentNoEffect ==
    [][(ret'.op = "execute" /\ ret'.res = "MissingArgumentError")
        => /\ nextId' = nextId
           /\ dirs' = dirs
           /\ tasks' = tasks
           /\ epc' = epc]_vars

C10_Witness ==
    /\ ret.op = "execute"
    /\ ret.res = "MissingArgumentError"
    /\ nextId > 0
    /\ dirs # {}
    /\ DOMAIN tasks # {}

C12_RegisteredBeforeDispatch ==
    [][\A r \in RunIds :
        mode[r] = "async" =>
            /\ (wk[r] = "none" /\ wk'[r] = "exec")
                => /\ r \in DOMAIN tasks
                   /\ tasks[r] = <<StateRunning, TRUE>>
                   /\ ret' = Return("execute", r, "ok", NoState)
                   /\ codes'[r] = <<>>
            /\ (wk[r] = "incb" /\ wk'[r] = "done" /\ hist[r] # "cancel_active")
                => /\ r \in DOMAIN tasks
                   /\ StateOf(tasks, r).type = "Running"
                   /\ r \in DOMAIN tasks'
                   /\ StateOf(tasks', r).type \in Terminal]_vars

C12_Witness ==
    \E r, q \in RunIds :
        /\ mode[r] = "async"
        /\ wk[r] = "done"
        /\ r \in DOMAIN tasks
        /\ StateOf(tasks, r).type = "Success"
        /\ ret = Return("execute", q, "ok", NoState)
        /\ mode[q] = "async"
        /\ wk[q] = "exec"
        /\ tasks[q] = <<StateRunning, TRUE>>

\* C13: a command that exits non-zero or raises at launch never makes
\* execute raise and never takes the cleanup path: the run directory stays;
\* a synchronous execute returns normally with the entry of the run (unless
\* a cancel_run or remove_run took it away) in Error; in asynchronous mode
\* execute has returned before, the entry stays Running until the callback
\* and is in Error after it.
C13_ExecutionFailureNeverEscapes ==
    \A r \in RunIds :
        ~AllZero(r) =>
            /\ exc[r] = "none"
            /\ epc[r] # "raised"
            /\ r \in dirs
            /\ (ret.op = "execute" /\ ret.id = r) => ret.res = "ok"
            /\ (mode[r] = "sync" /\ epc[r] = "returned" /\ hist[r] = "in")
                => /\ r \in DOMAIN tasks
                   /\ StateOf(tasks, r).type = "Error"
            /\ (mode[r] = "async" /\ hist[r] = "in")
                => /\ epc[r] = "returned"
                   /\ r \in DOMAIN tasks
                   /\ StateOf(tasks, r).type = (IF wk[r] = "done" THEN "Error" ELSE "Running")

C13_Witness ==
    \E r, q \in RunIds :
        /\ mode[r] = "sync"
        /\ codes[r] = <<"raise">>
        /\ ret = Return("execute", r, "ok", NoState)
        /\ r \in dirs
        /\ r \in DOMAIN tasks
        /\ StateOf(tasks, r) = StateError(<<"str(ex)", "traceback">>)
        /\ mode[q] = "async"
        /\ codes[q] = <<"nonzero">>
        /\ q \in DOMAIN tasks
        /\ StateOf(tasks, q).type = "Error"

\* The identifiers in use: an execute call was made for them, or they have a
\* directory, an entry or a history.
UsedIds ==
    {r \in RunIds : epc[r] # "none" \/ r \in dirs \/ r \in DOMAIN tasks \/ hist[r] # "never"}

C15_DuplicateRegistrationRejected ==
    [][\A id \in RunIds :
        (ret'.op = "run_async" /\ ret'.id = id /\ id \in DOMAIN tasks)
            => /\ ret'.res = "DuplicateRunError"
               /\ tasks'[id] = tasks[id]
               /\ pool'[id] = pool[id]]_vars

\* C16: the run table is read and written under the one lock: while a
\* cancel_run holds the lock, no get_state and no remove_run returns, no
\* other cancel_run returns or takes the lock, no run is registered, no
\* completion callback (asynchronous or synchronous) completes, and the
\* only change of the run table is the holder deleting its entry as it
\* releases the lock.
C16_TableAccessUnderLock ==
    [][lock # FreeLock =>
        /\ lock' \in {lock, FreeLock}
        /\ ret'.op \notin {"get_state", "remove_run", "run_async"}
        /\ ret'.op = "cancel_run" => (ret'.id = lock.id /\ lock' = FreeLock)
        /\ \A r \in RunIds :
            /\ hist[r] = "never" => hist'[r] = "never"
            /\ wk'[r] = "done" => wk[r] = "done"
        /\ tasks' # tasks
            => /\ lock' = FreeLock
               /\ tasks' = Del(tasks, lock.id)
               /\ ret' = Return("cancel_run", lock.id, "ok", NoState)]_vars

C16_Witness ==
    /\ lock.holder = "cancel_run"
    /\ \E r, q \in RunIds :
        /\ r # lock.id
        /\ mode[r] = "sync"
        /\ wk[r] = "result"
        /\ IsRunning(tasks, r)
        /\ q = lock.id
        /\ wk[q] = "incb"

\* C17: no operation waits while it holds the lock: whenever the lock is
\* held from one step to the next, its holder has no worker process and no
\* pool thread to wait for; in particular cancel_run does not hold the lock
\* while the worker of the run still executes commands or while the result
\* handler thread of the pool delivers the result.
C17_NoWaitUnderLock ==
    lock # FreeLock => wk[lock.id] \notin {"exec", "result", "incb"}

\* The lock is held by a cancel_run that cannot return: pool.terminate waits
\* for the result handler thread, which waits for the lock in the callback.
LockStuck == lock.holder = "cancel_run" /\ wk[lock.id] = "incb"

\* C18: the lock is never held across the execution of the commands of a
\* run, synchronous or asynchronous: while the commands of a run are
\* executing the lock is free, or held by a cancel_run that returns and
\* releases it, so that get_state and cancel_run for any id can take the
\* lock and complete.
C18_LockAvailableDuringCommands ==
    \A r \in RunIds :
        wk[r] = "exec" => (lock = FreeLock \/ (lock.holder = "cancel_run" /\ ~LockStuck))

\* C19: a completion callback that runs for an id that is not in the run
\* table discards the result: the run table, the pools, the exceptions and
\* the run directories stay as they were, and nothing is raised (a
\* synchronous execute returns normally).
C19_CallbackDiscardsForAbsentId ==
    [][\A r \in RunIds :
        (wk[r] # "done" /\ wk'[r] = "done" /\ r \notin DOMAIN tasks)
            => /\ tasks' = tasks
               /\ pool' = pool
               /\ exc' = exc
               /\ dirs' = dirs
               /\ mode[r] = "sync" => ret' = Return("execute", r, "ok", NoState)]_vars

C19_Witness ==
    \E r, q \in RunIds :
        /\ wk[r] = "done"
        /\ hist[r] = "cancel_active"
        /\ r \notin DOMAIN tasks
        /\ ret = Return("execute", r, "ok", NoState)
        /\ q # r
        /\ q \in DOMAIN tasks

\* C20: when cancel_run(id) returns, it raised nothing, released the lock,
\* and id is not in the run table, whether its entry was Running, Success or
\* Error; a pool is running only while its entry holds it, so the entry of
\* a run with a pool is never deleted without the pool being terminated.
C20_CancelDeletesWhateverState ==
    /\ ret.op = "cancel_run"
        => /\ ret.res = "ok"
           /\ ret.id \notin DOMAIN tasks
           /\ pool[ret.id] # "run"
           /\ lock = FreeLock
    /\ \A r \in RunIds :
        /\ pool[r] = "run" => (r \in DOMAIN tasks /\ tasks[r][2])
        /\ (hist[r] = "cancel_active" /\ mode[r] = "async") => pool[r] = "terminate"
        /\ hist[r] \in {"cancel_active", "cancel_inactive"} => r \notin DOMAIN tasks

C20_Witness ==
    /\ ret.op = "cancel_run"
    /\ hist[ret.id] = "cancel_inactive"
    /\ \E q \in RunIds :
        /\ hist[q] = "cancel_active"
        /\ pool[q] = "terminate"
        /\ wk[q] = "killed"

C22_HandleOnlyWhileRunningAsync ==
    \A r \in DOMAIN tasks :
        /\ tasks[r][2] => /\ StateOf(tasks, r).type = "Running"
                          /\ mode[r] = "async"
                          /\ pool[r] # "none"
        /\ mode[r] = "sync" => ~tasks[r][2]
        /\ StateOf(tasks, r).type \in Terminal
            => /\ ~tasks[r][2]
               /\ mode[r] = "async" => pool[r] = "close"

C22_Witness ==
    \E r, q \in DOMAIN tasks :
        /\ mode[r] = "async"
        /\ StateOf(tasks, r).type = "Success"
        /\ ~tasks[r][2]
        /\ pool[r] = "close"
        /\ mode[q] = "async"
        /\ tasks[q] = <<StateRunning, TRUE>>
        /\ wk[q] = "result"

\* A step of cancel_run(a) or of the completion callback of a.
StepOfCancelOrCallback(a) ==
    \/ ret'.op = "cancel_run" /\ ret'.id = a
    \/ lock = FreeLock /\ lock' = [holder |-> "cancel_run", id |-> a]
    \/ wk[a] # "done" /\ wk'[a] = "done"

\* The step leaves the entry, the pool, the worker, the executed commands
\* and the directory of run b as they were.
Untouched(b) ==
    /\ (b \in DOMAIN tasks') = (b \in DOMAIN tasks)
    /\ b \in DOMAIN tasks => tasks'[b] = tasks[b]
    /\ pool'[b] = pool[b]
    /\ wk'[b] = wk[b]
    /\ codes'[b] = codes[b]
    /\ fs'[b] = fs[b]
    /\ (b \in dirs') = (b \in dirs)

\* C23: every asynchronous run has a pool of its own, and cancel_run(a) and
\* the completion callback of a leave the entry, the state, the pool and the
\* worker of every other run b as they were.
C23_OtherRunsUntouched ==
    [][\A a, b \in RunIds : (a # b /\ StepOfCancelOrCallback(a)) => Untouched(b)]_vars

C23_Witness ==
    \E a, b \in RunIds :
        /\ a # b
        /\ ret = Return("cancel_run", a, "ok", NoState)
        /\ pool[a] = "terminate"
        /\ wk[a] = "killed"
        /\ mode[b] = "async"
        /\ pool[b] = "run"
        /\ wk[b] = "exec"
        /\ tasks[b] = <<StateRunning, TRUE>>

\* The command runner of r has returned its result.
RunnerReturned(r) == wk[r] \in {"result", "incb", "done"}

\* The position of the first command of r that did not exit with code 0.
FirstFailure(r) ==
    CHOOSE i \in 1..Len(codes[r]) :
        /\ codes[r][i] # "zero"
        /\ \A j \in 1..(i - 1) : codes[r][j] = "zero"

\* C24: the result of the command runner is that of the first failing
\* command: status SUCCESS with no message exactly if every executed command
\* exited with code 0 (also for no command at all); otherwise the first
\* failing command is the last one executed and the status is ERROR, with the
\* one message stderr after a non-zero exit and with the two messages
\* str(ex), traceback after an exception; the identifier returned is the one
\* passed in.
C24_RunnerResult ==
    \A r \in RunIds :
        RunnerReturned(r) =>
            LET res == RunResult(r, codes[r]) IN
                /\ res.identifier = r
                /\ (res.status = "SUCCESS") = AllZero(r)
                /\ (res.status = "ERROR") = ~AllZero(r)
                /\ AllZero(r) => res.messages = <<>>
                /\ ~AllZero(r) =>
                    /\ FirstFailure(r) = Len(codes[r])
                    /\ codes[r][FirstFailure(r)] = "nonzero" => res.messages = <<"stderr">>
                    /\ codes[r][FirstFailure(r)] = "raise"
                        => res.messages = <<"str(ex)", "traceback">>

C24_Witness ==
    \E r, q \in RunIds :
        /\ RunnerReturned(r)
        /\ codes[r] = <<"zero", "raise">>
        /\ RunnerReturned(q)
        /\ codes[q] = <<>>
        /\ q \in DOMAIN tasks
        /\ StateOf(tasks, q) = StateSuccess(NoResources)

\* C26: cancel_run does not deadlock against the completion of the run it
\* cancels: whenever cancel_run holds the lock it can go on to terminate the
\* pool, delete the entry, release the lock and return.
C26_CancelCanReturn ==
    \A id \in RunIds :
        lock = [holder |-> "cancel_run", id |-> id] => ENABLED CancelTerminate(id)

\* C27: under fair scheduling, an asynchronous run that is Running leaves
\* Running, unless it is being cancelled: its entry gets a terminal state
\* (or goes), so that polling get_state for it ends.
C27_AsyncRunLeavesRunning ==
    \A r \in RunIds :
        (mode[r] = "async" /\ IsRunning(tasks, r))
            ~> (~IsRunning(tasks, r) \/ lock = [holder |-> "cancel_run", id |-> r])

\* C28: every run id in the run table has its run directory, and execute
\* has raised for no id that is in the run table.
C28_RegisteredRunHasDirectory ==
    \A r \in DOMAIN tasks : r \in dirs /\ exc[r] = "none"

\* C29: cancel_run for an id that has no entry raises nothing and leaves the
\* run table, the pools, the workers and the run directories as they are; and
\* every cancel_run returns normally with no entry for its id, so that a
\* second cancel_run for the id changes nothing.
C29_CancelAbsentIsNoOp ==
    [][\A id \in RunIds :
        (ret'.op = "cancel_run" /\ ret'.id = id)
            => /\ ret'.res = "ok"
               /\ id \notin DOMAIN tasks'
               /\ id \notin DOMAIN tasks
                    => /\ tasks' = tasks
                       /\ pool' = pool
                       /\ wk' = wk
                       /\ dirs' = dirs
                       /\ hist' = hist
                       /\ lock' = lock]_vars

\* A second cancel_run for a run that was cancelled while it was Running and
\* whose commands have ended since.
C29_Witness ==
    /\ ret.op = "cancel_run"
    /\ ret.res = "ok"
    /\ hist[ret.id] = "cancel_active"
    /\ wk[ret.id] = "done"
    /\ ret.id \notin DOMAIN tasks

\* All command strings of the steps, in step order and in command order
\* within a step.
RECURSIVE Flatten(_)
Flatten(steps) == IF steps = <<>> THEN <<>> ELSE Head(steps) \o Flatten(Tail(steps))

\* The value of the key k of inputs/parameters for the call with template t
\* and arguments a: the argument for its template parameter, or the default.
ValueOf(t, a, k) ==
    IF t.inputs[k] \in DOMAIN a THEN a[t.inputs[k]] ELSE t.parameters[t.inputs[k]]

\* C25: get_commands returns one resolved command per command string of the
\* template, in step order and command order: every text piece as it is,
\* every placeholder replaced by the argument or else the default, so that
\* arguments change neither the number nor the order of the commands; if a
\* command has a placeholder whose key has no value, it raises
\* InvalidTemplateError and returns no list.
C25_GetCommands ==
    ret.op = "get_commands" =>
        LET t == ret.id.template
            a == ret.id.arguments
            flat == Flatten(t.steps)
        IN  IF \A i \in 1..Len(flat) : \A j \in 1..Len(flat[i]) :
                    flat[i][j].kind = "var" => flat[i][j].s \in DOMAIN t.inputs
            THEN /\ ret.res = "ok"
                 /\ Len(ret.val) = Len(flat)
                 /\ Len(ret.val) = Len(GetCommands(t, <<>>).val)
                 /\ \A i \in 1..Len(flat) :
                        /\ Len(ret.val[i]) = Len(flat[i])
                        /\ \A j \in 1..Len(flat[i]) :
                            ret.val[i][j] = (IF flat[i][j].kind = "var"
                                             THEN ValueOf(t, a, flat[i][j].s)
                                             ELSE flat[i][j].s)
            ELSE /\ ret.res = "InvalidTemplateError"
                 /\ ret.val = NoState

C25_Witness ==
    /\ ret.op = "get_commands"
    /\ ret.res = "ok"
    /\ DOMAIN ret.id.arguments = {"q"}
    /\ ret.val = << <<"run", "d1">>, <<"v2", "d1">>, <<"echo">> >>
    /\ Len(ret.id.template.steps) = 2

====
